---- MODULE Spec2Model ----
(***************************************************************************)
(* site-finder: the CSV -> GeoJSON loaders.                                *)
(*                                                                         *)
(* Three generations of the loaders live in the repository:                *)
(*   - src/src/components/CSVReader.ts: the browser fetches a CSV file and *)
(*     parses it with Papa.parse (variant "csv");                          *)
(*   - src/src/App.tsx, lines 19-203: the batch preprocessor turns the CSV *)
(*     files into .geojson files, and src/unnamed/part_000 fetches those   *)
(*     (variant "geojson").                                                *)
(* A call of one loader is a run of the state machine below.               *)
(***************************************************************************)
EXTENDS Integers, Sequences, FiniteSets, TLC

(***************************************************************************)
(* Bounds of the model.                                                    *)
(***************************************************************************)
\* The longest source file of a whole-file load, in data rows.
MaxRows == 2
\* The longest run of consecutive unreadable shards, the total outage apart.
MaxOutage == 2
\* The data rows of the longest file the split script is given.
MaxDataRows == 38
\* const ROWS_PER_FILE = 100000 of scripts/splitCsv.js, scaled down: the
\* script only ever looks at row % ROWS_PER_FILE.
ROWS_PER_FILE == 2

\* The moveend events of one run of the map component.
MaxMoves == 3

\* The time the clock runs to, and its step, in ms.
MaxTime == 1500
ClockStep == 250

(***************************************************************************)
(* JavaScript values.  A raw CSV cell is a string; a column the row does   *)
(* not have reads as undefined.                                            *)
(***************************************************************************)
Undefined == [t |-> "undefined"]
Null == [t |-> "null"]
NaN == [t |-> "NaN"]
Infinity == [t |-> "Infinity"]
Str(s) == [t |-> "string", s |-> s]
Num(n) == [t |-> "number", n |-> n]

\* row.c of a parsed row (Papa.parse, header: true): the cell, or undefined.
Get(row, c) == IF c \in DOMAIN row THEN Str(row[c]) ELSE Undefined

\* The decimal literals of the model's cells, with their values.
Numerals ==
  [s \in {"0", "9", "10", "11", "12", "13", "19", "20", "21", "22", "23",
          "100", "200", "2020"} |->
     CASE s = "0" -> 0 [] s = "9" -> 9 [] s = "10" -> 10 [] s = "11" -> 11
       [] s = "12" -> 12 [] s = "13" -> 13 [] s = "19" -> 19 [] s = "20" -> 20
       [] s = "21" -> 21 [] s = "22" -> 22 [] s = "23" -> 23
       [] s = "100" -> 100 [] s = "200" -> 200 [] s = "2020" -> 2020]

\* parseFloat(v): the number a decimal literal denotes, Infinity for the
\* literal "Infinity", NaN for undefined, "" and any other text.
ParseFloat(v) ==
  IF v.t # "string" THEN NaN
  ELSE IF v.s \in DOMAIN Numerals THEN Num(Numerals[v.s])
  ELSE IF v.s = "Infinity" THEN Infinity
  ELSE NaN

\* parseInt(v, 10): as parseFloat on the integer literals, but "Infinity" has
\* no leading digit and gives NaN.
ParseInt(v) ==
  IF v.t # "string" THEN NaN
  ELSE IF v.s \in DOMAIN Numerals THEN Num(Numerals[v.s])
  ELSE NaN

\* isNaN(v), v a number.
IsNaN(v) == v = NaN

\* v || 0, v a number: NaN and 0 are falsy.
OrZero(v) == IF v = NaN \/ v = Num(0) THEN Num(0) ELSE v

\* The truthiness of a cell: undefined and "" are falsy.
Truthy(v) == v # Undefined /\ v # Str("")

\* ToNumber(v) in a relational comparison: null is 0.
ToNumber(v) == IF v = Null THEN Num(0) ELSE v

\* a < b on numbers: false when either is NaN.
JsLt(a, b) ==
  LET x == ToNumber(a)
      y == ToNumber(b)
  IN  /\ x # NaN /\ y # NaN
      /\ x # Infinity
      /\ (y = Infinity \/ x.n < y.n)

\* a > b, a >= b, a <= b on numbers.
JsGt(a, b) == JsLt(b, a)
JsGe(a, b) ==
  LET x == ToNumber(a)
      y == ToNumber(b)
  IN  x # NaN /\ y # NaN /\ ~JsLt(a, b)
JsLe(a, b) == JsGe(b, a)

\* JSON.parse(JSON.stringify(v)) of a value: NaN and Infinity are written as
\* null.
JsonValue(v) == IF v \in {NaN, Infinity} THEN Null ELSE v

\* { ...a, ...b }: the keys of both, b's value where both have the key.
Spread(a, b) == b @@ a

\* const { k1, k2, ...rest } = row: the row without the keys taken out.
Rest(row, taken) == [c \in DOMAIN row \ taken |-> Str(row[c])]

\* A GeoJSON point feature.
Feature(coordinates, properties) ==
  [type |-> "Feature",
   geometry |-> [type |-> "Point", coordinates |-> coordinates],
   properties |-> properties]

\* JSON.parse(JSON.stringify(f)) of a feature: a property whose value is
\* undefined is left out, NaN and Infinity become null.
JsonFeature(f) ==
  IF "geometry" \notin DOMAIN f THEN f
  ELSE Feature(
         [k \in DOMAIN f.geometry.coordinates |->
            JsonValue(f.geometry.coordinates[k])],
         [k \in {c \in DOMAIN f.properties : f.properties[c] # Undefined} |->
            JsonValue(f.properties[k])])

\* The round trip of a feature list through a .geojson file.
JsonFeatures(fs) == [k \in DOMAIN fs |-> JsonFeature(fs[k])]

(***************************************************************************)
(* The row callbacks of CSVReader.ts.  Each gives the features the row     *)
(* pushes: <<>> when the row is skipped, <<f>> when it is kept.            *)
(***************************************************************************)
\* readCompetitionsData's forEach with "Storage facility" missing from the
\* allow-list.
readCompetitionsData_forEach_twoTypes(row) ==
  IF Get(row, "longitude") = Str("") \/ Get(row, "latitude") = Str("")
  THEN <<>>
  ELSE IF \/ Get(row, "type") = Str("Storage")
          \/ Get(row, "type") = Str("Self storage facility")
  THEN LET longitudeNum == ParseFloat(Get(row, "longitude"))
           latitudeNum == ParseFloat(Get(row, "latitude"))
       IN  IF IsNaN(longitudeNum) \/ IsNaN(latitudeNum)
           THEN <<>>
           ELSE << Feature(<<longitudeNum, latitudeNum>>,
                     Spread([query |-> Get(row, "query"),
                             name |-> Get(row, "name"),
                             address |-> Get(row, "full_address"),
                             phone |-> Get(row, "phone"),
                             site |-> Get(row, "site"),
                             pointType |-> Str("competitor")],
                            Rest(row, {"longitude", "latitude"}))) >>
  ELSE <<>>

\* results.data.forEach of readCompetitionsData.
readCompetitionsData_forEach(row) ==
  IF Get(row, "longitude") = Str("") \/ Get(row, "latitude") = Str("")
  THEN <<>>
  ELSE IF \/ Get(row, "type") = Str("Storage")
          \/ Get(row, "type") = Str("Self storage facility")
          \/ Get(row, "type") = Str("Storage facility")
  THEN LET longitudeNum == ParseFloat(Get(row, "longitude"))
           latitudeNum == ParseFloat(Get(row, "latitude"))
       IN  IF IsNaN(longitudeNum) \/ IsNaN(latitudeNum)
           THEN <<>>
           ELSE << Feature(<<longitudeNum, latitudeNum>>,
                     Spread([query |-> Get(row, "query"),
                             name |-> Get(row, "name"),
                             address |-> Get(row, "full_address"),
                             phone |-> Get(row, "phone"),
                             site |-> Get(row, "site"),
                             pointType |-> Str("competitor")],
                            Rest(row, {"longitude", "latitude"}))) >>
  ELSE <<>>

\* readCommercialLandData's forEach emitting [longitude, latitude].
readCommercialLandData_forEach_lngLat(row) ==
  LET longitude == ParseFloat(Get(row, "longitude"))
      latitude == ParseFloat(Get(row, "latitude"))
  IN  IF IsNaN(longitude) \/ IsNaN(latitude)
      THEN <<>>
      ELSE << Feature(<<longitude, latitude>>,
                Spread([k \in {"outcode", "pageTitle", "pricePerSqFt",
                               "price_1", "price_2", "property",
                               "propertySubType", "sector", "size", "type",
                               "ukCountry", "url", "id"} |-> Get(row, k)],
                       [pointType |-> Str("commercial")])) >>

\* readCommercialLandData's forEach with pageTitle renamed to title.
readCommercialLandData_forEach_rename(row) ==
  LET longitude == ParseFloat(Get(row, "longitude"))
      latitude == ParseFloat(Get(row, "latitude"))
  IN  IF IsNaN(longitude) \/ IsNaN(latitude)
      THEN <<>>
      ELSE << Feature(<<latitude, longitude>>,
                Spread([k \in {"outcode", "pricePerSqFt",
                               "price_1", "price_2", "property",
                               "propertySubType", "sector", "size", "type",
                               "ukCountry", "url", "id"} |-> Get(row, k)],
                       [title |-> Get(row, "pageTitle"),
                        pointType |-> Str("commercial")])) >>

\* results.data.forEach of readCommercialLandData.
readCommercialLandData_forEach(row) ==
  LET longitude == ParseFloat(Get(row, "longitude"))
      latitude == ParseFloat(Get(row, "latitude"))
  IN  IF IsNaN(longitude) \/ IsNaN(latitude)
      THEN <<>>
      ELSE << Feature(<<latitude, longitude>>,
                Spread([k \in {"outcode", "pageTitle", "pricePerSqFt",
                               "price_1", "price_2", "property",
                               "propertySubType", "sector", "size", "type",
                               "ukCountry", "url", "id"} |-> Get(row, k)],
                       [pointType |-> Str("commercial")])) >>

\* The step callback of readPopulationData.
readPopulationData_step(row) ==
  LET longitude == ParseFloat(Get(row, "Longitude"))
      latitude == ParseFloat(Get(row, "Latitude"))
  IN  IF IsNaN(longitude) \/ IsNaN(latitude)
      THEN <<>>
      ELSE << Feature(<<longitude, latitude>>,
                Spread([pointType |-> Str("population")],
                       Rest(row, {"Latitude", "Longitude"}))) >>

\* readTrafficData's forEach without the "|| 0" of all_motor_vehicles.
readTrafficData_forEach_noFallback(row) ==
  LET longitude == ParseFloat(Get(row, "longitude"))
      latitude == ParseFloat(Get(row, "latitude"))
  IN  IF IsNaN(longitude) \/ IsNaN(latitude)
      THEN <<>>
      ELSE << Feature(<<longitude, latitude>>,
                [pointType |-> Str("traffic"),
                 year |-> ParseInt(Get(row, "year")),
                 all_motor_vehicles |->
                   ParseInt(Get(row, "all_motor_vehicles"))]) >>

\* readTrafficData's forEach spreading the raw columns into the properties.
readTrafficData_forEach_spread(row) ==
  LET longitude == ParseFloat(Get(row, "longitude"))
      latitude == ParseFloat(Get(row, "latitude"))
  IN  IF IsNaN(longitude) \/ IsNaN(latitude)
      THEN <<>>
      ELSE << Feature(<<longitude, latitude>>,
                Spread(Rest(row, {"longitude", "latitude"}),
                       [pointType |-> Str("traffic"),
                        year |-> ParseInt(Get(row, "year")),
                        all_motor_vehicles |->
                          OrZero(ParseInt(Get(row, "all_motor_vehicles")))]))
           >>

\* results.data.forEach of readTrafficData.
readTrafficData_forEach(row) ==
  LET longitude == ParseFloat(Get(row, "longitude"))
      latitude == ParseFloat(Get(row, "latitude"))
  IN  IF IsNaN(longitude) \/ IsNaN(latitude)
      THEN <<>>
      ELSE << Feature(<<longitude, latitude>>,
                [pointType |-> Str("traffic"),
                 year |-> ParseInt(Get(row, "year")),
                 all_motor_vehicles |->
                   OrZero(ParseInt(Get(row, "all_motor_vehicles")))]) >>

\* loadVisiblePopulation's step with the upper bounds exclusive.
loadVisiblePopulation_step_exclusive(row, minLng, minLat, maxLng, maxLat) ==
  LET lat == ParseFloat(Get(row, "Latitude"))
      lng == ParseFloat(Get(row, "Longitude"))
  IN  IF \/ IsNaN(lat)
         \/ IsNaN(lng)
         \/ JsLt(lng, minLng)
         \/ JsGe(lng, maxLng)
         \/ JsLt(lat, minLat)
         \/ JsGe(lat, maxLat)
      THEN <<>>
      ELSE << Feature(<<lng, lat>>,
                Spread(Rest(row, {"Latitude", "Longitude", "BUA_Population"}),
                       [BUA_Population |->
                          OrZero(ParseInt(Get(row, "BUA_Population")))])) >>

\* The step callback of loadVisiblePopulation (CSVReader.ts).
loadVisiblePopulation_step(row, minLng, minLat, maxLng, maxLat) ==
  LET lat == ParseFloat(Get(row, "Latitude"))
      lng == ParseFloat(Get(row, "Longitude"))
  IN  IF \/ IsNaN(lat)
         \/ IsNaN(lng)
         \/ JsLt(lng, minLng)
         \/ JsGt(lng, maxLng)
         \/ JsLt(lat, minLat)
         \/ JsGt(lat, maxLat)
      THEN <<>>
      ELSE << Feature(<<lng, lat>>,
                Spread(Rest(row, {"Latitude", "Longitude", "BUA_Population"}),
                       [BUA_Population |->
                          OrZero(ParseInt(Get(row, "BUA_Population")))])) >>

(***************************************************************************)
(* The batch preprocessor (App.tsx, lines 19-203): .filter(...).map(...)   *)
(* .filter(Boolean), row by row.                                           *)
(***************************************************************************)
\* processCompetitionData without the type test in its filter.
processCompetitionData_row_noTypeFilter(row) ==
  IF Truthy(Get(row, "longitude")) /\ Truthy(Get(row, "latitude"))
  THEN LET longitudeNum == ParseFloat(Get(row, "longitude"))
           latitudeNum == ParseFloat(Get(row, "latitude"))
       IN  IF IsNaN(longitudeNum) \/ IsNaN(latitudeNum)
           THEN <<>>
           ELSE << Feature(<<longitudeNum, latitudeNum>>,
                     Spread(Rest(row, {"longitude", "latitude"}),
                            [pointType |-> Str("competitor")])) >>
  ELSE <<>>

\* processCompetitionData.
processCompetitionData_row(row) ==
  IF /\ Truthy(Get(row, "longitude"))
     /\ Truthy(Get(row, "latitude"))
     /\ \/ Get(row, "type") = Str("Storage")
        \/ Get(row, "type") = Str("Self storage facility")
        \/ Get(row, "type") = Str("Storage facility")
  THEN LET longitudeNum == ParseFloat(Get(row, "longitude"))
           latitudeNum == ParseFloat(Get(row, "latitude"))
       IN  IF IsNaN(longitudeNum) \/ IsNaN(latitudeNum)
           THEN <<>>
           ELSE << Feature(<<longitudeNum, latitudeNum>>,
                     Spread(Rest(row, {"longitude", "latitude"}),
                            [pointType |-> Str("competitor")])) >>
  ELSE <<>>

\* processCommercialLandData: longitudeNum is parsed from row.latitude and
\* latitudeNum from row.longitude.
processCommercialLandData_row(row) ==
  IF Truthy(Get(row, "longitude")) /\ Truthy(Get(row, "latitude"))
  THEN LET longitudeNum == ParseFloat(Get(row, "latitude"))
           latitudeNum == ParseFloat(Get(row, "longitude"))
       IN  IF IsNaN(longitudeNum) \/ IsNaN(latitudeNum)
           THEN <<>>
           ELSE << Feature(<<longitudeNum, latitudeNum>>,
                     Spread(Rest(row, {}),
                            [pointType |-> Str("commercial")])) >>
  ELSE <<>>

\* processTrafficData with "|| 0" after the year as well.
processTrafficData_row_yearFallback(row) ==
  IF Truthy(Get(row, "longitude")) /\ Truthy(Get(row, "latitude"))
  THEN LET longitudeNum == ParseFloat(Get(row, "longitude"))
           latitudeNum == ParseFloat(Get(row, "latitude"))
       IN  IF IsNaN(longitudeNum) \/ IsNaN(latitudeNum)
           THEN <<>>
           ELSE << Feature(<<longitudeNum, latitudeNum>>,
                     [pointType |-> Str("traffic"),
                      year |-> OrZero(ParseInt(Get(row, "year"))),
                      all_motor_vehicles |->
                        OrZero(ParseInt(Get(row, "all_motor_vehicles")))]) >>
  ELSE <<>>

\* processTrafficData.
processTrafficData_row(row) ==
  IF Truthy(Get(row, "longitude")) /\ Truthy(Get(row, "latitude"))
  THEN LET longitudeNum == ParseFloat(Get(row, "longitude"))
           latitudeNum == ParseFloat(Get(row, "latitude"))
       IN  IF IsNaN(longitudeNum) \/ IsNaN(latitudeNum)
           THEN <<>>
           ELSE << Feature(<<longitudeNum, latitudeNum>>,
                     [pointType |-> Str("traffic"),
                      year |-> ParseInt(Get(row, "year")),
                      all_motor_vehicles |->
                        OrZero(ParseInt(Get(row, "all_motor_vehicles")))]) >>
  ELSE <<>>

\* processPopulationChunks, one row of one chunk.
processPopulationChunks_row(row) ==
  IF Truthy(Get(row, "Latitude")) /\ Truthy(Get(row, "Longitude"))
  THEN LET longitudeNum == ParseFloat(Get(row, "Longitude"))
           latitudeNum == ParseFloat(Get(row, "Latitude"))
       IN  IF IsNaN(longitudeNum) \/ IsNaN(latitudeNum)
           THEN <<>>
           ELSE << Feature(<<longitudeNum, latitudeNum>>,
                     Spread(Rest(row, {"Latitude", "Longitude"}),
                            [BUA_Population |->
                               OrZero(ParseInt(Get(row, "BUA_Population")))])) >>
  ELSE <<>>

\* processPopulationChunks, one chunk: the features written to its .geojson.
RECURSIVE processPopulationChunks(_)
processPopulationChunks(data) ==
  IF data = <<>> THEN <<>>
  ELSE processPopulationChunks_row(Head(data))
         \o processPopulationChunks(Tail(data))

(***************************************************************************)
(* part_000: the loaders over the preprocessed .geojson files.             *)
(***************************************************************************)
\* The filter callback of loadVisiblePopulation (part_000): reading
\* feature.geometry.coordinates of a feature without a geometry throws.
loadVisiblePopulation_filter(feature, minLng, minLat, maxLng, maxLat) ==
  LET lng == feature.geometry.coordinates[1]
      lat == feature.geometry.coordinates[2]
  IN  /\ JsGe(lng, minLng)
      /\ JsLe(lng, maxLng)
      /\ JsGe(lat, minLat)
      /\ JsLe(lat, maxLat)

\* The filter and the push done feature by feature: what was pushed before
\* the throw stays in allFeatures.
visibleFeatures_pushEach(chunk, minLng, minLat, maxLng, maxLat) ==
  IF \E k \in DOMAIN chunk : "geometry" \notin DOMAIN chunk[k]
  THEN LET bad == CHOOSE k \in DOMAIN chunk :
                    /\ "geometry" \notin DOMAIN chunk[k]
                    /\ \A j \in 1..(k - 1) : "geometry" \in DOMAIN chunk[j]
       IN  [threw |-> TRUE,
            pushed |-> SelectSeq(SubSeq(chunk, 1, bad - 1),
                         LAMBDA f : loadVisiblePopulation_filter(
                                      f, minLng, minLat, maxLng, maxLat))]
  ELSE [threw |-> FALSE,
        pushed |-> SelectSeq(chunk,
                     LAMBDA f : loadVisiblePopulation_filter(
                                  f, minLng, minLat, maxLng, maxLat))]

\* chunkCollection.features.filter(...) followed by allFeatures.push(...):
\* what one chunk adds to allFeatures, and whether the filter threw.  The push
\* comes after the whole filter, so a throw adds nothing.
visibleFeatures(chunk, minLng, minLat, maxLng, maxLat) ==
  IF \E k \in DOMAIN chunk : "geometry" \notin DOMAIN chunk[k]
  THEN [threw |-> TRUE, pushed |-> <<>>]
  ELSE [threw |-> FALSE,
        pushed |-> SelectSeq(chunk,
                     LAMBDA f : loadVisiblePopulation_filter(
                                  f, minLng, minLat, maxLng, maxLat))]

\* Papa.parse(text, { step }) of loadVisiblePopulation (CSVReader.ts): every
\* row's step pushes straight into features.
RECURSIVE loadVisiblePopulation_parse(_, _, _, _, _)
loadVisiblePopulation_parse(data, minLng, minLat, maxLng, maxLat) ==
  IF data = <<>> THEN <<>>
  ELSE loadVisiblePopulation_step(Head(data), minLng, minLat, maxLng, maxLat)
         \o loadVisiblePopulation_parse(Tail(data), minLng, minLat, maxLng,
                                        maxLat)

(***************************************************************************)
(* The files on the server.                                                *)
(***************************************************************************)
\* const totalChunks = 18.
totalChunks == 18

\* A cell is <<>> (the row has no such column) or <<s>> (the text s).
Cell(c, cell) == IF cell = <<>> THEN <<>> ELSE c :> cell[1]

LngCells == {<<>>, <<"">>, <<"abc">>, <<"10">>, <<"200">>, <<"Infinity">>}
LatCells == {<<>>, <<"">>, <<"abc">>, <<"20">>, <<"100">>}
TypeCells ==
  {<<>>, <<"">>, <<"Warehouse">>, <<"Storage">>, <<"Self storage facility">>,
   <<"Storage facility">>, <<"Storage facification">>}

\* The column names of a dataset's coordinate pair.
LngCol(ds) ==
  IF ds \in {"population", "visiblePopulation"} THEN "Longitude"
  ELSE "longitude"
LatCol(ds) ==
  IF ds \in {"population", "visiblePopulation"} THEN "Latitude"
  ELSE "latitude"

SourceRow(ds, lng, lat, type) ==
  Cell(LngCol(ds), lng) @@ Cell(LatCol(ds), lat) @@ Cell("type", type)

\* The rows a source file is made of: every longitude cell, every latitude
\* cell and every type cell beside otherwise good cells, and a row that is bad
\* in two ways.
SourceRows(ds) ==
  {SourceRow(ds, lng, <<"20">>, <<"Storage">>) : lng \in LngCells}
    \cup {SourceRow(ds, <<"10">>, lat, <<"Storage">>) : lat \in LatCells}
    \cup {SourceRow(ds, <<"10">>, <<"20">>, type) : type \in TypeCells}
    \cup {SourceRow(ds, <<"abc">>, <<"20">>, <<"Warehouse">>)}

\* A row with longitude 10 and latitude 20 (and, for the competitor dataset,
\* the type "Storage") and these other columns.
PropertyRow(ds, columns) ==
  columns @@ SourceRow(ds, <<"10">>, <<"20">>, <<>>)
    @@ (IF ds = "competitor" THEN "type" :> "Storage" ELSE <<>>)

\* The rows whose other columns matter: the columns each loader names, with
\* numeric and non-numeric cells, a column no loader names, and a raw column
\* called pointType.
PropertyRows(ds) ==
  CASE ds = "competitor" ->
         {PropertyRow(ds, [full_address |-> "1 High St", name |-> "Acme",
                           phone |-> "555", rating |-> "9"]),
          PropertyRow(ds, [name |-> "Acme"]),
          PropertyRow(ds, [full_address |-> "1 High St", pointType |-> "raw"])}
    [] ds = "commercial" ->
         {PropertyRow(ds, [pageTitle |-> "Unit 1", price_1 |-> "100",
                           id |-> "9"]),
          PropertyRow(ds, [pageTitle |-> "Unit 1", agent |-> "Smith"]),
          PropertyRow(ds, [pageTitle |-> "Unit 1", pointType |-> "raw"])}
    [] ds = "traffic" ->
         {PropertyRow(ds, [year |-> "2020", all_motor_vehicles |-> "100",
                           road_name |-> "A1", pointType |-> "raw"])}
           \cup {PropertyRow(ds, Cell("year", year)
                                   @@ [all_motor_vehicles |-> "100"]) :
                   year \in {<<>>, <<"">>, <<"abc">>}}
           \cup {PropertyRow(ds, Cell("all_motor_vehicles", count)
                                   @@ [year |-> "2020"]) :
                   count \in {<<>>, <<"">>, <<"abc">>, <<"0">>}}
    [] ds = "population" ->
         {PropertyRow(ds, Cell("BUA_Population", count)
                            @@ [Postcode |-> "P1"]) :
            count \in {<<>>, <<"">>, <<"abc">>, <<"0">>, <<"100">>}}
           \cup {PropertyRow(ds, [BUA_Population |-> "100",
                                  pointType |-> "raw"])}

\* The source files of a dataset: up to MaxRows rows, taken from the rows that
\* try the row filter or from the rows that try the field mapping.
SourceFiles(ds) ==
  UNION {[1..n -> SourceRows(ds)] : n \in 0..MaxRows}
    \cup UNION {[1..n -> PropertyRows(ds)] : n \in 0..MaxRows}

\* What Papa.parse makes of the error page of an HTTP error status: rows
\* whose only column is the page's first line.
ErrorPageRows == << ("<!DOCTYPE html>" :> "<html>") >>

\* The population chunks chunk_1.csv .. chunk_18.csv, two rows each: the cells
\* repeat with period 9, so every kind of row is in two chunks.
ChunkLngA ==
  << <<"9">>, <<"10">>, <<"11">>, <<"12">>, <<"13">>, <<"abc">>, <<"">>, <<>>,
     <<"10">> >>
ChunkLatA ==
  << <<"21">>, <<"21">>, <<"21">>, <<"21">>, <<"21">>, <<"21">>, <<"21">>,
     <<"21">>, <<"20">> >>
ChunkLngB ==
  << <<"11">>, <<"11">>, <<"11">>, <<"11">>, <<"11">>, <<"11">>, <<"11">>,
     <<"11">>, <<"200">> >>
ChunkLatB ==
  << <<"19">>, <<"20">>, <<"21">>, <<"22">>, <<"23">>, <<"abc">>, <<"">>, <<>>,
     <<"21">> >>
ChunkBua ==
  << <<"100">>, <<"abc">>, <<"">>, <<>>, <<"0">>, <<"100">>, <<"100">>,
     <<"100">>, <<"100">> >>

ChunkRow(postcode, lng, lat, bua) ==
  ("Postcode" :> postcode) @@ Cell("Longitude", lng) @@ Cell("Latitude", lat)
    @@ Cell("BUA_Population", bua)

\* chunk_i.csv.
ChunkRows(n) ==
  LET j == ((n - 1) % 9) + 1
  IN  << ChunkRow(ToString(n) \o "a", ChunkLngA[j], ChunkLatA[j], ChunkBua[j]),
         ChunkRow(ToString(n) \o "b", ChunkLngB[j], ChunkLatB[j], <<"100">>) >>

\* chunk_i.geojson, as the preprocessor wrote it.
ChunkGeoJson(n) == JsonFeatures(processPopulationChunks(ChunkRows(n)))

\* A .geojson chunk whose last feature has lost its geometry.
MalformedGeoJson(n) ==
  ChunkGeoJson(n) \o << [type |-> "Feature", properties |-> <<>>] >>

\* The bounding boxes a caller asks for: <<minLng, minLat, maxLng, maxLat>>.
Boxes ==
  {<<10, 20, 12, 22>>, <<10, 20, 10, 20>>, <<12, 20, 10, 22>>,
   <<10, 22, 12, 20>>, <<0, 0, 200, 100>>}

\* The unreadable shards of a run: none, a run of up to MaxOutage consecutive
\* shards, or all of them.
Outages ==
  {{}} \cup {1..totalChunks}
    \cup {{k \in 1..totalChunks : lo <= k /\ k < lo + len} :
            lo \in 1..totalChunks, len \in 1..MaxOutage}

\* How an unreadable resource fails: fetch rejects ("reject"), the server
\* answers with an error status ("httpError"), the body cannot be read or
\* decoded ("bodyError"), or the JSON document is not a feature list
\* ("malformed").
FailKinds(v) ==
  IF v = "csv" THEN {"reject", "httpError", "bodyError"}
  ELSE {"reject", "httpError", "bodyError", "malformed"}

(***************************************************************************)
(* The state of one call.                                                  *)
(***************************************************************************)
VARIABLES
  dataset,     \* the loader called: "competitor", "commercial", "traffic",
               \* "population" (whole file) or "visiblePopulation" (windowed)
  variant,     \* "csv" (CSVReader.ts) or "geojson" (App.tsx + part_000)
  rows,        \* the data rows of the dataset's source CSV file
  body,        \* the rows Papa.parse reads from the fetched text
  pc,          \* where the call is
  pos,         \* the next row of the forEach / step / map loop
  features,    \* tempObj.features, features, allFeatures: the list being built
  origin,      \* for each feature of a whole-file load, the row it came from
  net,         \* how the retrieval went: "pending", "ok" or a failure kind
  result,      \* the promise the caller holds
  box,         \* <<minLng, minLat, maxLng, maxLat>> of a windowed load
  unreadable,  \* the shard ordinals whose resource is unreadable
  failKind,    \* how an unreadable shard fails
  i,           \* the loop variable of loadVisiblePopulation
  inflight,    \* the shard being retrieved and parsed, 0 when none
  attempted,   \* the shard ordinals whose retrieval was started
  log          \* the shard ordinals console.error / console.warn reported

\* scripts/splitCsv.js.
VARIABLES
  input,       \* the lines of the INPUT file, as readline gives them
  linePos,     \* the next line of the for await loop
  headers,     \* let headers
  stream,      \* let stream: the ordinal of the chunk being written, 0 when
               \* undefined
  chunkIndex,  \* let i = 0
  rowCount,    \* let row = 0
  chunks,      \* the lines written to chunk_1.csv, chunk_2.csv, ...
  ended,       \* the ordinals of the streams end() was called on
  splitPc      \* "idle", "loop" or "done"

scriptVars ==
  <<input, linePos, headers, stream, chunkIndex, rowCount, chunks, ended,
    splitPc>>

\* The split script is not running.
ScriptIdle ==
  /\ input = <<>> /\ linePos = 1 /\ headers = Undefined /\ stream = 0
  /\ chunkIndex = 0 /\ rowCount = 0 /\ chunks = <<>> /\ ended = {}
  /\ splitPc = "idle"

\* MapComponent.tsx: the layers, the legend and the Draw Circle tool.
VARIABLES
  generation,           \* which of the two MapComponent sources of the file
                        \* runs: 1 (lines 1-843) or 2 (lines 845-1489)
  mapLoaded,            \* useState(false), set by map.on("load")
  loadPhase,            \* getDataAndAddLayers: "idle", "awaiting", "done" or
                        \* "failed"
  loadShow,             \* the checkbox states getDataAndAddLayers closed over
  showCommercialLayer,  \* useState(true)
  showLocationsLayer,   \* useState(true)
  showTrafficLayer,     \* useState(true)
  effects,              \* the layers whose visibility effect is yet to run
  layers,               \* the layers on the map, with their visibility
  competitionData,      \* useState([])
  commercialLandData,   \* useState([])
  radius,               \* useState(1000)
  drawingCircle,        \* useState(false)
  listeners,            \* the onClick closures registered with map.on("click")
  selectedPoints,       \* useState([])
  circle                \* the data of the "circle" source, <<>> when absent

mapVars ==
  <<generation, mapLoaded, loadPhase, loadShow, showCommercialLayer,
    showLocationsLayer, showTrafficLayer, effects, layers, competitionData,
    commercialLandData, radius, drawingCircle, listeners, selectedPoints,
    circle>>

\* The checkbox states of one render.
Shown(commercial, locations, traffic) ==
  [commercial |-> commercial, locations |-> locations, traffic |-> traffic]

\* The component is not mounted.
MapIdle ==
  /\ generation = 0 /\ mapLoaded = FALSE /\ loadPhase = "idle"
  /\ loadShow = Shown(TRUE, TRUE, TRUE)
  /\ showCommercialLayer = TRUE /\ showLocationsLayer = TRUE
  /\ showTrafficLayer = TRUE /\ effects = {} /\ layers = <<>>
  /\ competitionData = <<>> /\ commercialLandData = <<>>
  /\ radius = 1000 /\ drawingCircle = FALSE /\ listeners = <<>>
  /\ selectedPoints = <<>> /\ circle = <<>>

\* MapComponent.tsx: the population layers, updated on moveend.
VARIABLES
  now,                    \* the time, in ms since the effect ran
  timers,                 \* the timers set with setTimeout and not yet run
  timeout,                \* let timeout of debounce: <<>> when null
  moves,                  \* the times of the moveend events so far
  runs,                   \* the calls of updatePopulationDataAndLayers so far:
                          \* when, with which event, after how many events
  loading,                \* the calls that await loadVisiblePopulation
  populationSource,       \* the "population" source: <<>> when absent, else
                          \* <<k>>, the data of call k
  addSourceCalls,         \* how often addSource("population") was called
  populationLayers,       \* the population layers, with their visibility
  showPopulationHeatmap,  \* useState(true)
  populationEffect        \* the population visibility effect is yet to run

populationVars ==
  <<now, timers, timeout, moves, runs, loading, populationSource,
    addSourceCalls, populationLayers, showPopulationHeatmap, populationEffect>>

\* The population effect has not run.
PopulationIdle ==
  /\ now = 0 /\ timers = {} /\ timeout = <<>> /\ moves = <<>> /\ runs = <<>>
  /\ loading = {} /\ populationSource = <<>> /\ addSourceCalls = 0
  /\ populationLayers = <<>> /\ showPopulationHeatmap = TRUE
  /\ populationEffect = FALSE

componentVars == <<mapVars, populationVars>>

vars ==
  <<dataset, variant, rows, body, pc, pos, features, origin, net, result, box,
    unreadable, failKind, i, inflight, attempted, log, scriptVars,
    componentVars>>

\* What no step of a loader call changes: what it was called with, and the
\* state of the split script and of the map component.
loaderVars ==
  <<dataset, variant, rows, box, unreadable, failKind, scriptVars,
    componentVars>>
windowVars == <<i, inflight, attempted, log>>

Pending == [status |-> "pending"]
Rejected == [status |-> "rejected"]
Resolved(fs) == [status |-> "resolved", type |-> "FeatureCollection",
                 features |-> fs]

WholeFile == {"competitor", "commercial", "traffic", "population"}

\* The loaders there are: readPopulationData has no .geojson successor.
Loaders ==
  {<<ds, v>> : ds \in WholeFile \cup {"visiblePopulation"},
               v \in {"csv", "geojson"}}
    \ {<<"population", "geojson">>}

\* The row callback of a whole-file loader.
RowFeature(ds, v, row) ==
  CASE ds = "competitor" /\ v = "csv" -> readCompetitionsData_forEach(row)
    [] ds = "commercial" /\ v = "csv" -> readCommercialLandData_forEach(row)
    [] ds = "traffic" /\ v = "csv" -> readTrafficData_forEach(row)
    [] ds = "population" /\ v = "csv" -> readPopulationData_step(row)
    [] ds = "competitor" /\ v = "geojson" -> processCompetitionData_row(row)
    [] ds = "commercial" /\ v = "geojson" -> processCommercialLandData_row(row)
    [] ds = "traffic" /\ v = "geojson" -> processTrafficData_row(row)

Init ==
  /\ ScriptIdle /\ MapIdle /\ PopulationIdle
  /\ \E l \in Loaders : dataset = l[1] /\ variant = l[2]
  /\ pos = 1
  /\ features = <<>>
  /\ origin = <<>>
  /\ net = "pending"
  /\ result = Pending
  /\ body = <<>>
  /\ inflight = 0
  /\ attempted = {}
  /\ log = <<>>
  /\ IF dataset \in WholeFile
     THEN /\ rows \in SourceFiles(dataset)
          /\ pc = IF variant = "csv" THEN "fetch" ELSE "preprocess"
          /\ box = <<0, 0, 0, 0>>
          /\ unreadable = {}
          /\ failKind = "none"
          /\ i = 0
     ELSE /\ rows = <<>>
          /\ pc = "loop"
          /\ box \in Boxes
          /\ unreadable \in Outages
          /\ failKind \in IF unreadable = {} THEN {"none"}
                          ELSE FailKinds(variant)
          /\ i = 1

(***************************************************************************)
(* Whole-file loads of CSVReader.ts: fetch(url).then(response =>           *)
(* response.text()).then(csvText => Papa.parse(...)).                      *)
(***************************************************************************)
\* fetch(url) settles.  It rejects on a network error only: an HTTP error
\* status resolves, and response.ok is not looked at.
Fetch ==
  /\ pc = "fetch" /\ variant = "csv"
  /\ \E outcome \in {"ok", "reject", "httpError"} :
       /\ net' = outcome
       /\ IF outcome = "reject"
          THEN /\ result' = Rejected
               /\ pc' = "done"
               /\ body' = body
          ELSE /\ result' = result
               /\ pc' = "text"
               /\ body' = IF outcome = "ok" THEN rows ELSE ErrorPageRows
  /\ UNCHANGED <<loaderVars, windowVars, pos, features, origin>>

\* response.text() settles: the body arrives whole, or the promise rejects.
ReadText ==
  /\ pc = "text"
  /\ \E arrived \in BOOLEAN :
       IF arrived
       THEN /\ pc' = "parse"
            /\ UNCHANGED <<net, result>>
       ELSE /\ pc' = "done"
            /\ net' = "bodyError"
            /\ result' = Rejected
  /\ UNCHANGED <<loaderVars, windowVars, body, pos, features, origin>>

\* The forEach with a throw where a row is skipped: the promise rejects.
ParseRow_throwOnSkip ==
  /\ pc = "parse" /\ pos <= Len(body)
  /\ LET pushed == RowFeature(dataset, variant, body[pos])
     IN  /\ features' = features \o pushed
         /\ origin' = origin \o [k \in DOMAIN pushed |-> pos]
         /\ IF pushed = <<>>
            THEN result' = Rejected /\ pc' = "done"
            ELSE result' = result /\ pc' = pc
  /\ pos' = pos + 1
  /\ UNCHANGED <<loaderVars, windowVars, body, net>>

\* The forEach with unshift in the place of push.
ParseRow_unshift ==
  /\ pc = "parse" /\ pos <= Len(body)
  /\ LET pushed == RowFeature(dataset, variant, body[pos])
     IN  /\ features' = pushed \o features
         /\ origin' = [k \in DOMAIN pushed |-> pos] \o origin
  /\ pos' = pos + 1
  /\ UNCHANGED <<loaderVars, windowVars, body, pc, net, result>>

\* One row of results.data.forEach (or one step callback).
ParseRow ==
  /\ pc = "parse" /\ pos <= Len(body)
  /\ LET pushed == RowFeature(dataset, variant, body[pos])
     IN  /\ features' = features \o pushed
         /\ origin' = origin \o [k \in DOMAIN pushed |-> pos]
  /\ pos' = pos + 1
  /\ UNCHANGED <<loaderVars, windowVars, body, pc, net, result>>

\* resolve(tempObj) after the last row.
Complete ==
  /\ pc = "parse" /\ pos > Len(body)
  /\ result' = Resolved(features)
  /\ pc' = "done"
  /\ UNCHANGED <<loaderVars, windowVars, body, pos, features, origin, net>>

(***************************************************************************)
(* Whole-file loads over .geojson: the preprocessor writes the file, and   *)
(* fetchGeoJSON (part_000) reads it.                                       *)
(***************************************************************************)
\* One row of data.filter(...).map(...).filter(Boolean).
PreprocessRow ==
  /\ pc = "preprocess" /\ pos <= Len(rows)
  /\ LET pushed == RowFeature(dataset, variant, rows[pos])
     IN  /\ features' = features \o pushed
         /\ origin' = origin \o [k \in DOMAIN pushed |-> pos]
  /\ pos' = pos + 1
  /\ UNCHANGED <<loaderVars, windowVars, body, pc, net, result>>

\* writeGeoJson: JSON.stringify of the collection.
WriteGeoJson ==
  /\ pc = "preprocess" /\ pos > Len(rows)
  /\ features' = JsonFeatures(features)
  /\ pc' = "fetch"
  /\ UNCHANGED <<loaderVars, windowVars, body, pos, origin, net, result>>

\* fetchGeoJSON up to response.json(): a network error rejects, and so does
\* a response that is not ok.
FetchGeoJSON ==
  /\ pc = "fetch" /\ variant = "geojson"
  /\ \E outcome \in {"ok", "reject", "httpError"} :
       /\ net' = outcome
       /\ IF outcome = "ok"
          THEN pc' = "json" /\ result' = result
          ELSE pc' = "done" /\ result' = Rejected
  /\ UNCHANGED <<loaderVars, windowVars, body, pos, features, origin>>

\* response.json() settles: the document, or a rejection.
ReadJson ==
  /\ pc = "json"
  /\ \E parsed \in BOOLEAN :
       IF parsed
       THEN /\ result' = Resolved(features)
            /\ net' = net
       ELSE /\ result' = Rejected
            /\ net' = "bodyError"
  /\ pc' = "done"
  /\ UNCHANGED <<loaderVars, windowVars, body, pos, features, origin>>

(***************************************************************************)
(* loadVisiblePopulation: for (let i = 1; i <= totalChunks; i++) { try {   *)
(* ... } catch (e) { console.error(...) } }.                               *)
(***************************************************************************)
\* What the try block of iteration n does: the features it pushes, and
\* whether it ends in the catch block.
TryChunk(n) ==
  LET failed == n \in unreadable
  IN  IF variant = "csv"
      THEN IF failed /\ failKind \in {"reject", "bodyError"}
           THEN [caught |-> TRUE, pushed |-> <<>>]
           ELSE [caught |-> FALSE,
                 pushed |-> loadVisiblePopulation_parse(
                              IF failed THEN ErrorPageRows ELSE ChunkRows(n),
                              Num(box[1]), Num(box[2]), Num(box[3]),
                              Num(box[4]))]
      ELSE IF failed /\ failKind \in {"reject", "httpError", "bodyError"}
           THEN [caught |-> TRUE, pushed |-> <<>>]
           ELSE LET visible ==
                      visibleFeatures(
                        IF failed THEN MalformedGeoJson(n)
                        ELSE ChunkGeoJson(n),
                        Num(box[1]), Num(box[2]), Num(box[3]), Num(box[4]))
                IN  [caught |-> visible.threw, pushed |-> visible.pushed]

\* The loop body without its awaits: the retrieval of shard i + 1 is started
\* together with that of shard i.
BeginChunk_noAwait ==
  /\ pc = "loop" /\ i <= totalChunks /\ inflight = 0
  /\ inflight' = i
  /\ attempted' = attempted \cup {n \in {i, i + 1} : n <= totalChunks}
  /\ UNCHANGED <<loaderVars, body, pc, pos, features, origin, net, result, i,
                 log>>

\* The loop enters iteration i: await fetch(url) starts the retrieval.
BeginChunk ==
  /\ pc = "loop" /\ i <= totalChunks /\ inflight = 0
  /\ inflight' = i
  /\ attempted' = attempted \cup {i}
  /\ UNCHANGED <<loaderVars, body, pc, pos, features, origin, net, result, i,
                 log>>

\* The loop body without its try / catch: a failing shard rejects the call.
SettleChunk_noCatch ==
  /\ pc = "loop" /\ inflight = i /\ i >= 1
  /\ LET try == TryChunk(i)
     IN  /\ features' = features \o try.pushed
         /\ IF try.caught
            THEN result' = Rejected /\ pc' = "done"
            ELSE result' = result /\ pc' = pc
  /\ inflight' = 0
  /\ i' = i + 1
  /\ UNCHANGED <<loaderVars, body, pos, origin, net, attempted, log>>

\* The loop body with the shard's features put in front of allFeatures.
SettleChunk_unshift ==
  /\ pc = "loop" /\ inflight = i /\ i >= 1
  /\ LET try == TryChunk(i)
     IN  /\ features' = try.pushed \o features
         /\ log' = IF try.caught THEN Append(log, i) ELSE log
  /\ inflight' = 0
  /\ i' = i + 1
  /\ UNCHANGED <<loaderVars, body, pc, pos, origin, net, result, attempted>>

\* The retrieval and parse of shard i complete or fail; i++.
SettleChunk ==
  /\ pc = "loop" /\ inflight = i /\ i >= 1
  /\ LET try == TryChunk(i)
     IN  /\ features' = features \o try.pushed
         /\ log' = IF try.caught THEN Append(log, i) ELSE log
  /\ inflight' = 0
  /\ i' = i + 1
  /\ UNCHANGED <<loaderVars, body, pc, pos, origin, net, result, attempted>>

\* return { type: "FeatureCollection", features }.
Return ==
  /\ pc = "loop" /\ i > totalChunks
  /\ result' = Resolved(features)
  /\ pc' = "done"
  /\ UNCHANGED <<loaderVars, windowVars, body, pos, features, origin, net>>

Next ==
  \/ Fetch
  \/ ReadText
  \/ ParseRow
  \/ Complete
  \/ PreprocessRow
  \/ WriteGeoJson
  \/ FetchGeoJSON
  \/ ReadJson
  \/ BeginChunk
  \/ SettleChunk
  \/ Return

Spec == Init /\ [][Next]_vars

(***************************************************************************)
(* scripts/splitCsv.js: the population file is cut into chunk_1.csv,       *)
(* chunk_2.csv, ... of ROWS_PER_FILE data rows each.                       *)
(***************************************************************************)
\* A line of a CSV file: the header line, or the k-th data line.
HeaderLine == Str("Postcode,Longitude,Latitude,BUA_Population")
DataLine(k) == Str(ToString(k))

\* The INPUT file: empty, or a header line and n data lines.
InputFile(n) == <<HeaderLine>> \o [k \in 1..n |-> DataLine(k)]
InputFiles == {<<>>} \cup {InputFile(n) : n \in 0..MaxDataRows}

\* No loader is called while the script runs.
LoaderIdle ==
  /\ dataset = "none" /\ variant = "none" /\ rows = <<>> /\ body = <<>>
  /\ pc = "idle" /\ pos = 1 /\ features = <<>> /\ origin = <<>>
  /\ net = "pending" /\ result = Pending /\ box = <<0, 0, 0, 0>>
  /\ unreadable = {} /\ failKind = "none" /\ i = 0 /\ inflight = 0
  /\ attempted = {} /\ log = <<>>

loaderState ==
  <<dataset, variant, rows, body, pc, pos, features, origin, net, result, box,
    unreadable, failKind, i, inflight, attempted, log>>

SplitInit ==
  /\ LoaderIdle /\ MapIdle /\ PopulationIdle
  /\ input \in InputFiles
  /\ linePos = 1 /\ headers = Undefined /\ stream = 0
  /\ chunkIndex = 0 /\ rowCount = 0 /\ chunks = <<>> /\ ended = {}
  /\ splitPc = "loop"

\* if (!headers) { headers = line; continue; }
SplitHeader ==
  /\ splitPc = "loop" /\ linePos <= Len(input)
  /\ ~Truthy(headers)
  /\ headers' = input[linePos]
  /\ linePos' = linePos + 1
  /\ UNCHANGED <<loaderState, componentVars, input, stream, chunkIndex,
                 rowCount, chunks, ended, splitPc>>

\* The rest of the loop body with every row opening a new chunk.
SplitLine_chunkPerRow ==
  /\ splitPc = "loop" /\ linePos <= Len(input)
  /\ Truthy(headers)
  /\ ended' = (ended \cup {stream}) \ {0}
  /\ chunkIndex' = chunkIndex + 1
  /\ stream' = chunkIndex + 1
  /\ chunks' = Append(chunks, <<headers, input[linePos]>>)
  /\ rowCount' = rowCount + 1
  /\ linePos' = linePos + 1
  /\ UNCHANGED <<loaderState, componentVars, input, headers, splitPc>>

\* The rest of the loop body: at every ROWS_PER_FILE-th row the stream is
\* ended and chunk_${++i}.csv is opened with the header line; the line is
\* written; row++.
SplitLine ==
  /\ splitPc = "loop" /\ linePos <= Len(input)
  /\ Truthy(headers)
  /\ IF rowCount % ROWS_PER_FILE = 0
     THEN /\ ended' = (ended \cup {stream}) \ {0}
          /\ chunkIndex' = chunkIndex + 1
          /\ stream' = chunkIndex + 1
          /\ chunks' = Append(chunks, <<headers, input[linePos]>>)
     ELSE /\ chunks' = [chunks EXCEPT ![stream] = Append(@, input[linePos])]
          /\ UNCHANGED <<ended, chunkIndex, stream>>
  /\ rowCount' = rowCount + 1
  /\ linePos' = linePos + 1
  /\ UNCHANGED <<loaderState, componentVars, input, headers, splitPc>>

\* After the last line: stream?.end().
SplitEnd ==
  /\ splitPc = "loop" /\ linePos > Len(input)
  /\ ended' = (ended \cup {stream}) \ {0}
  /\ splitPc' = "done"
  /\ UNCHANGED <<loaderState, componentVars, input, linePos, headers, stream,
                 chunkIndex, rowCount, chunks>>

SplitNext ==
  \/ SplitHeader
  \/ SplitLine
  \/ SplitEnd

SplitSpec == SplitInit /\ [][SplitNext]_vars

(***************************************************************************)
(* MapComponent.tsx: the data layers, the legend checkboxes and the Draw   *)
(* Circle tool.  A step is one event handler, effect or promise            *)
(* continuation, run to its end; React runs a pending effect before it     *)
(* handles the next update.                                                *)
(***************************************************************************)
\* The layers getDataAndAddLayers adds, by the checkbox that shows them:
\* "traffic" is traffic-line (first source) or traffic-heatmap and
\* traffic-point (second source).
LayerIds == {"commercial", "locations", "traffic"}

\* The values of the radius slider that are tried.
Radii == {1000, 3000}

\* The places a map click falls on, in metres along a line.
ClickPlaces == {0, 5000}

\* What the loaders resolve with: features, each at a place along the line;
\* one has a coordinate that is not a number.
CommercialFeatures ==
  << [id |-> "commercial-0", at |-> Num(500)],
     [id |-> "commercial-1", at |-> Num(2500)] >>
CompetitionFeatures ==
  << [id |-> "competitor-0", at |-> Num(800)],
     [id |-> "competitor-1", at |-> Null],
     [id |-> "competitor-2", at |-> Num(4500)] >>

\* showXLayer ? "visible" : "none".
Visibility(show) == IF show THEN "visible" ELSE "none"

\* The checkbox states of the current render.
Show == Shown(showCommercialLayer, showLocationsLayer, showTrafficLayer)

\* The filter callback of startDrawingCircle's onClick: turf.point throws on a
\* coordinate that is not a number, and the catch block returns false.
PointInCircle(point, center, radiusInMeters) ==
  IF point.at.t # "number" THEN FALSE
  ELSE LET d == point.at.n - center
       IN  (IF d < 0 THEN -d ELSE d) < radiusInMeters

\* visiblePoints.filter(...) of onClick, from what the closure holds: the
\* first source lists the commercial features first, the second source the
\* competitors.
SelectedBy(closure, center) ==
  LET commercial == IF closure.showCommercialLayer
                    THEN closure.commercialLandData ELSE <<>>
      competition == IF closure.showLocationsLayer
                     THEN closure.competitionData ELSE <<>>
      visiblePoints == IF generation = 1 THEN commercial \o competition
                       ELSE competition \o commercial
  IN  SelectSeq(visiblePoints,
                LAMBDA point : PointInCircle(point, center, closure.radius))

\* The values of the current render, which a function created in it closes
\* over.
Closure ==
  [radius |-> radius,
   showCommercialLayer |-> showCommercialLayer,
   showLocationsLayer |-> showLocationsLayer,
   commercialLandData |-> commercialLandData,
   competitionData |-> competitionData]

MapInit ==
  /\ LoaderIdle /\ ScriptIdle /\ PopulationIdle
  /\ generation \in {1, 2}
  /\ mapLoaded = FALSE /\ loadPhase = "idle"
  /\ loadShow = Shown(TRUE, TRUE, TRUE)
  /\ showCommercialLayer = TRUE /\ showLocationsLayer = TRUE
  /\ showTrafficLayer = TRUE /\ effects = {} /\ layers = <<>>
  /\ competitionData = <<>> /\ commercialLandData = <<>>
  /\ radius = 1000 /\ drawingCircle = FALSE /\ listeners = <<>>
  /\ selectedPoints = <<>> /\ circle = <<>>

notMapVars == <<loaderState, scriptVars, populationVars, generation>>

\* map.on("load"): setMapLoaded(true); the effect on [mapLoaded] calls
\* getDataAndAddLayers, which runs up to its first await.
MapLoad ==
  /\ ~mapLoaded /\ effects = {}
  /\ mapLoaded' = TRUE
  /\ loadPhase' = "awaiting"
  /\ loadShow' = Show
  /\ UNCHANGED <<notMapVars, showCommercialLayer, showLocationsLayer,
                 showTrafficLayer, effects, layers, competitionData,
                 commercialLandData, radius, drawingCircle, listeners,
                 selectedPoints, circle>>

\* getDataAndAddLayers with the layers' visibility read from the map
\* component's current state.
DataArrive_currentState ==
  /\ loadPhase = "awaiting" /\ effects = {}
  /\ \E loaded \in BOOLEAN :
       IF loaded
       THEN /\ competitionData' = CompetitionFeatures
            /\ commercialLandData' = CommercialFeatures
            /\ layers' = [l \in LayerIds \ DOMAIN layers |->
                            Visibility(Show[l])] @@ layers
            /\ loadPhase' = "done"
       ELSE /\ loadPhase' = "failed"
            /\ UNCHANGED <<competitionData, commercialLandData, layers>>
  /\ UNCHANGED <<notMapVars, mapLoaded, loadShow, showCommercialLayer,
                 showLocationsLayer, showTrafficLayer, effects, radius,
                 drawingCircle, listeners, selectedPoints, circle>>

\* getDataAndAddLayers after its awaits: the loaders resolved (the data is
\* set and every layer not yet on the map is added, its visibility taken
\* from the checkbox states the function closed over), or one rejected (the
\* catch block logs).
DataArrive ==
  /\ loadPhase = "awaiting" /\ effects = {}
  /\ \E loaded \in BOOLEAN :
       IF loaded
       THEN /\ competitionData' = CompetitionFeatures
            /\ commercialLandData' = CommercialFeatures
            /\ layers' = [l \in LayerIds \ DOMAIN layers |->
                            Visibility(loadShow[l])] @@ layers
            /\ loadPhase' = "done"
       ELSE /\ loadPhase' = "failed"
            /\ UNCHANGED <<competitionData, commercialLandData, layers>>
  /\ UNCHANGED <<notMapVars, mapLoaded, loadShow, showCommercialLayer,
                 showLocationsLayer, showTrafficLayer, effects, radius,
                 drawingCircle, listeners, selectedPoints, circle>>

\* onChange of a legend checkbox: setShowXLayer(!showXLayer); the effect on
\* [showXLayer, mapLoaded] is due.
ToggleLayer(l) ==
  /\ effects = {}
  /\ showCommercialLayer' =
       IF l = "commercial" THEN ~showCommercialLayer ELSE showCommercialLayer
  /\ showLocationsLayer' =
       IF l = "locations" THEN ~showLocationsLayer ELSE showLocationsLayer
  /\ showTrafficLayer' =
       IF l = "traffic" THEN ~showTrafficLayer ELSE showTrafficLayer
  /\ effects' = effects \cup {l}
  /\ UNCHANGED <<notMapVars, mapLoaded, loadPhase, loadShow, layers,
                 competitionData, commercialLandData, radius, drawingCircle,
                 listeners, selectedPoints, circle>>

\* The effect on [showXLayer, mapLoaded]: setLayoutProperty when the map is
\* loaded and has the layer.
VisibilityEffect(l) ==
  /\ l \in effects
  /\ effects' = effects \ {l}
  /\ layers' = IF mapLoaded /\ l \in DOMAIN layers
                THEN [layers EXCEPT ![l] = Visibility(Show[l])]
                ELSE layers
  /\ UNCHANGED <<notMapVars, mapLoaded, loadPhase, loadShow,
                 showCommercialLayer, showLocationsLayer, showTrafficLayer,
                 competitionData, commercialLandData, radius, drawingCircle,
                 listeners, selectedPoints, circle>>

\* onChange of the radius slider.
SetRadius(r) ==
  /\ effects = {} /\ r # radius
  /\ radius' = r
  /\ UNCHANGED <<notMapVars, mapLoaded, loadPhase, loadShow,
                 showCommercialLayer, showLocationsLayer, showTrafficLayer,
                 effects, layers, competitionData, commercialLandData,
                 drawingCircle, listeners, selectedPoints, circle>>

\* startDrawingCircle without "if (drawingCircle) return".
startDrawingCircle_noGuard ==
  /\ effects = {}
  /\ drawingCircle' = TRUE
  /\ selectedPoints' = IF generation = 1 THEN <<>> ELSE selectedPoints
  /\ listeners' = Append(listeners, Closure)
  /\ UNCHANGED <<notMapVars, mapLoaded, loadPhase, loadShow,
                 showCommercialLayer, showLocationsLayer, showTrafficLayer,
                 effects, layers, competitionData, commercialLandData, radius,
                 circle>>

\* onClick of the Draw Circle button: startDrawingCircle of the current
\* render.  The first source clears selectedPoints as well.
startDrawingCircle ==
  /\ effects = {}
  /\ IF drawingCircle
     THEN UNCHANGED <<drawingCircle, selectedPoints, listeners>>
     ELSE /\ drawingCircle' = TRUE
          /\ selectedPoints' = IF generation = 1 THEN <<>> ELSE selectedPoints
          /\ listeners' = Append(listeners, Closure)
  /\ UNCHANGED <<notMapVars, mapLoaded, loadPhase, loadShow,
                 showCommercialLayer, showLocationsLayer, showTrafficLayer,
                 effects, layers, competitionData, commercialLandData, radius,
                 circle>>

\* onClick reading the radius, the checkboxes and the feature lists of the
\* component's current state.
onClick_currentState(center) ==
  /\ effects = {} /\ listeners # <<>>
  /\ circle' = << [center |-> center, radius |-> radius] >>
  /\ selectedPoints' = SelectedBy(Closure, center)
  /\ drawingCircle' = FALSE
  /\ listeners' = <<>>
  /\ UNCHANGED <<notMapVars, mapLoaded, loadPhase, loadShow,
                 showCommercialLayer, showLocationsLayer, showTrafficLayer,
                 effects, layers, competitionData, commercialLandData, radius>>

\* A click on the map while onClick is registered: every registered onClick
\* runs, in the order of registration, with what it closed over: it sets the
\* circle, selects the points, clears drawingCircle and removes itself.
onClick(center) ==
  /\ effects = {} /\ listeners # <<>>
  /\ LET closure == listeners[Len(listeners)]
     IN  /\ circle' = << [center |-> center, radius |-> closure.radius] >>
         /\ selectedPoints' = SelectedBy(closure, center)
  /\ drawingCircle' = FALSE
  /\ listeners' = <<>>
  /\ UNCHANGED <<notMapVars, mapLoaded, loadPhase, loadShow,
                 showCommercialLayer, showLocationsLayer, showTrafficLayer,
                 effects, layers, competitionData, commercialLandData, radius>>

MapNext ==
  \/ MapLoad
  \/ DataArrive
  \/ \E l \in LayerIds : ToggleLayer(l)
  \/ \E l \in LayerIds : VisibilityEffect(l)
  \/ \E r \in Radii : SetRadius(r)
  \/ startDrawingCircle
  \/ \E center \in ClickPlaces : onClick(center)

MapSpec == MapInit /\ [][MapNext]_vars

(***************************************************************************)
(* MapComponent.tsx: the effect that keeps the population source at what   *)
(* the map shows.  It runs once the map has loaded: it calls               *)
(* updatePopulationDataAndLayers and registers the debounced function on   *)
(* moveend.  A step is one event, timer callback, effect or promise        *)
(* continuation, run to its end.                                           *)
(***************************************************************************)
\* debounce(updatePopulationDataAndLayers, 500).
waitFor == 500

\* The two layers of the population source.
PopulationLayerIds == {"population-heatmap", "population-points"}

\* updatePopulationDataAndLayers up to its await: the call is recorded and
\* loadVisiblePopulation is under way for the bounds of the map.  event is
\* the moveend event the call was made for, 0 for the call of the effect.
Update(event) ==
  /\ runs' = Append(runs, [at |-> now, event |-> event, seen |-> Len(moves)])
  /\ loading' = loading \cup {Len(runs) + 1}

PopulationInit ==
  /\ LoaderIdle /\ ScriptIdle
  /\ generation = 1 /\ mapLoaded = TRUE /\ loadPhase = "awaiting"
  /\ loadShow = Shown(TRUE, TRUE, TRUE)
  /\ showCommercialLayer = TRUE /\ showLocationsLayer = TRUE
  /\ showTrafficLayer = TRUE /\ effects = {} /\ layers = <<>>
  /\ competitionData = <<>> /\ commercialLandData = <<>>
  /\ radius = 1000 /\ drawingCircle = FALSE /\ listeners = <<>>
  /\ selectedPoints = <<>> /\ circle = <<>>
  /\ now = 0 /\ timers = {} /\ timeout = <<>> /\ moves = <<>>
  /\ runs = << [at |-> 0, event |-> 0, seen |-> 0] >>
  /\ loading = {1}
  /\ populationSource = <<>> /\ addSourceCalls = 0
  /\ populationLayers = <<>>
  /\ showPopulationHeatmap \in BOOLEAN
  /\ populationEffect = FALSE

notPopulationVars == <<loaderState, scriptVars, mapVars>>

\* Time passes.  A timer that is due need not have run yet.
Tick ==
  /\ ~populationEffect
  /\ now + ClockStep <= MaxTime
  /\ now' = now + ClockStep
  /\ UNCHANGED <<notPopulationVars, timers, timeout, moves, runs, loading,
                 populationSource, addSourceCalls, populationLayers,
                 showPopulationHeatmap, populationEffect>>

\* The function debounce returns, without clearTimeout.
debouncedUpdate_noClear ==
  /\ ~populationEffect
  /\ Len(moves) < MaxMoves
  /\ moves' = Append(moves, now)
  /\ LET timer == [due |-> now + waitFor, args |-> Len(moves) + 1]
     IN  /\ timers' = timers \cup {timer}
         /\ timeout' = << timer >>
  /\ UNCHANGED <<notPopulationVars, now, runs, loading, populationSource,
                 addSourceCalls, populationLayers, showPopulationHeatmap,
                 populationEffect>>

\* A moveend event: the function debounce returned is called with it.  It
\* clears the timer it set last and sets one for waitFor ms from now.
debouncedUpdate ==
  /\ ~populationEffect
  /\ Len(moves) < MaxMoves
  /\ moves' = Append(moves, now)
  /\ LET timer == [due |-> now + waitFor, args |-> Len(moves) + 1]
         cleared == IF timeout # <<>> THEN timers \ {timeout[1]} ELSE timers
     IN  /\ timers' = cleared \cup {timer}
         /\ timeout' = << timer >>
  /\ UNCHANGED <<notPopulationVars, now, runs, loading, populationSource,
                 addSourceCalls, populationLayers, showPopulationHeatmap,
                 populationEffect>>

\* A timer runs, at its time or later: () => func(...args).
TimerFire ==
  /\ ~populationEffect
  /\ \E timer \in timers :
       /\ now >= timer.due
       /\ timers' = timers \ {timer}
       /\ Update(timer.args)
  /\ UNCHANGED <<notPopulationVars, now, timeout, moves, populationSource,
                 addSourceCalls, populationLayers, showPopulationHeatmap,
                 populationEffect>>

\* updatePopulationDataAndLayers after its await, with addSource and addLayer
\* whether or not the map has the source.
PopulationLoaded_noCheck ==
  /\ ~populationEffect
  /\ \E k \in loading :
       /\ loading' = loading \ {k}
       /\ populationSource' = << k >>
  /\ addSourceCalls' = addSourceCalls + 1
  /\ populationLayers' = [l \in PopulationLayerIds |-> "visible"]
  /\ UNCHANGED <<notPopulationVars, now, timers, timeout, moves, runs,
                 showPopulationHeatmap, populationEffect>>

\* updatePopulationDataAndLayers after its await, for any call that awaits:
\* loadVisiblePopulation has resolved (it catches what its fetches throw).
\* The source gets the data if the map has it; else the source and its two
\* layers are added, with no layout given, which is visible.
PopulationLoaded ==
  /\ ~populationEffect
  /\ \E k \in loading :
       /\ loading' = loading \ {k}
       /\ populationSource' = << k >>
  /\ IF populationSource # <<>>
     THEN UNCHANGED <<addSourceCalls, populationLayers>>
     ELSE /\ addSourceCalls' = addSourceCalls + 1
          /\ populationLayers' = [l \in PopulationLayerIds |-> "visible"]
  /\ UNCHANGED <<notPopulationVars, now, timers, timeout, moves, runs,
                 showPopulationHeatmap, populationEffect>>

\* onChange of the Population Heatmap checkbox; the effect on
\* [showPopulationHeatmap, mapLoaded] is due.
TogglePopulationHeatmap ==
  /\ ~populationEffect
  /\ showPopulationHeatmap' = ~showPopulationHeatmap
  /\ populationEffect' = TRUE
  /\ UNCHANGED <<notPopulationVars, now, timers, timeout, moves, runs,
                 loading, populationSource, addSourceCalls, populationLayers>>

\* The effect on [showPopulationHeatmap, mapLoaded]: setLayoutProperty for
\* each population layer the map has.
PopulationVisibilityEffect ==
  /\ populationEffect
  /\ populationEffect' = FALSE
  /\ populationLayers' =
       [l \in DOMAIN populationLayers |-> Visibility(showPopulationHeatmap)]
  /\ UNCHANGED <<notPopulationVars, now, timers, timeout, moves, runs,
                 loading, populationSource, addSourceCalls,
                 showPopulationHeatmap>>

PopulationNext ==
  \/ Tick
  \/ debouncedUpdate
  \/ TimerFire
  \/ PopulationLoaded
  \/ TogglePopulationHeatmap
  \/ PopulationVisibilityEffect

PopulationSpec == PopulationInit /\ [][PopulationNext]_vars

(***************************************************************************)
(* Vocabulary of the properties.                                           *)
(***************************************************************************)
Range(s) == {s[k] : k \in DOMAIN s}

\* The rows a whole-file load works through, and those it has been through.
Source == IF variant = "csv" THEN body ELSE rows
Seen == {k \in DOMAIN Source : k < pos}

\* Row k of the source has a feature in the list.
Kept(k) == k \in Range(origin)

\* The cell of column c is a decimal literal: it denotes a finite number.
FiniteCell(row, c) == c \in DOMAIN row /\ row[c] \in DOMAIN Numerals

\* Both coordinate cells denote finite numbers.
FiniteCoordinates(row) ==
  FiniteCell(row, LngCol(dataset)) /\ FiniteCell(row, LatCol(dataset))

\* Both coordinate cells denote numbers of the domain range.
ValidCoordinates(row) ==
  /\ FiniteCoordinates(row)
  /\ Numerals[row[LngCol(dataset)]] \in -180..180
  /\ Numerals[row[LatCol(dataset)]] \in -90..90

\* The chunks a windowed load has been through.
SeenChunks == {n \in 1..totalChunks : n < i}

\* A windowed load has emitted a feature for the row of this postcode.
Emitted(postcode) ==
  \E k \in DOMAIN features :
    /\ "Postcode" \in DOMAIN features[k].properties
    /\ features[k].properties["Postcode"] = Str(postcode)

\* A row with this text in column c.
HasCell(row, c, text) == c \in DOMAIN row /\ row[c] = text

(***************************************************************************)
(* C1.  For every loader (competitor, commercial, traffic, population      *)
(* whole-file, population windowed), a row whose longitude or latitude     *)
(* column is absent, is the empty string, or does not parse to a finite    *)
(* number produces no feature, and no error is raised for that row.        *)
(* The code tests isNaN, which lets the cell "Infinity" through.           *)
(***************************************************************************)
C1_InvalidCoordinateRowDropped ==
  /\ dataset \in WholeFile =>
       \A k \in Seen : ~FiniteCoordinates(Source[k]) => ~Kept(k)
  /\ dataset = "visiblePopulation" =>
       \A n \in SeenChunks \ unreadable :
         \A r \in Range(ChunkRows(n)) :
           ~FiniteCoordinates(r) => ~Emitted(r["Postcode"])
  /\ (pc = "done" /\ net \in {"pending", "ok"}) => result.status = "resolved"

(***************************************************************************)
(* C2.  Every feature of a returned collection has a finite longitude      *)
(* within [-180,180] and a finite latitude within [-90,90]; a row whose    *)
(* parsed longitude or latitude is out of that range produces no feature.  *)
(* No loader compares a coordinate with the domain range.  Stated here of   *)
(* the rows whose cells are decimal literals: the cell "Infinity" is C1's. *)
(***************************************************************************)
InRange(v, lo, hi) == v.t = "number" /\ lo <= v.n /\ v.n <= hi

C2_CoordinatesInDomain ==
  /\ dataset \in WholeFile =>
       \A j \in DOMAIN features :
         FiniteCoordinates(Source[origin[j]]) =>
           /\ InRange(features[j].geometry.coordinates[1], -180, 180)
           /\ InRange(features[j].geometry.coordinates[2], -90, 90)
  /\ dataset = "visiblePopulation" =>
       \A k \in DOMAIN features :
         /\ InRange(features[k].geometry.coordinates[1], -180, 180)
         /\ InRange(features[k].geometry.coordinates[2], -90, 90)

InBox(r) ==
  /\ box[1] <= Numerals[r["Longitude"]] /\ Numerals[r["Longitude"]] <= box[3]
  /\ box[2] <= Numerals[r["Latitude"]] /\ Numerals[r["Latitude"]] <= box[4]

C6_BoundingBoxInclusive ==
  dataset = "visiblePopulation" =>
    /\ \A n \in SeenChunks \ unreadable :
         \A r \in Range(ChunkRows(n)) :
           FiniteCoordinates(r) => (Emitted(r["Postcode"]) <=> InBox(r))
    /\ (box[1] > box[3] \/ box[2] > box[4]) => features = <<>>

\* A windowed load of the box (10, 20, 12, 22) has returned the points on its
\* four bounds and none of the points one unit outside them.
C6_Witness ==
  /\ dataset = "visiblePopulation" /\ result.status = "resolved"
  /\ box = <<10, 20, 12, 22>> /\ unreadable = {}
  /\ Emitted("2a") /\ Emitted("4a") /\ Emitted("2b") /\ Emitted("4b")
  /\ ~Emitted("1a") /\ ~Emitted("5a") /\ ~Emitted("1b") /\ ~Emitted("5b")

(***************************************************************************)
(* C7.  In loadVisiblePopulation a failure to retrieve, decode or parse    *)
(* shard k never aborts the load: the failure is caught and logged, every  *)
(* later shard is still attempted, and the call returns normally.          *)
(* CSVReader.ts does not look at response.ok: a shard the server answers   *)
(* with an error status is neither caught nor logged.                      *)
(***************************************************************************)
C7_ShardFailureCaughtAndLogged ==
  dataset = "visiblePopulation" =>
    /\ \A k \in unreadable \cap SeenChunks : k \in Range(log)
    /\ result.status # "rejected"
    /\ pc = "done" =>
         attempted = 1..totalChunks /\ result.status = "resolved"

(***************************************************************************)
(* C8.  When shards are unreadable, the collection loadVisiblePopulation   *)
(* returns is exactly the valid in-bounds records of the other shards: an  *)
(* unreadable shard contributes no record, also when it fails after some   *)
(* of its rows were processed.                                             *)
(***************************************************************************)
ExpectedPostcodes ==
  {r["Postcode"] :
     r \in {q \in UNION {Range(ChunkRows(n)) :
                           n \in (1..totalChunks) \ unreadable} :
              FiniteCoordinates(q) /\ InBox(q)}}

C8_UnreadableShardContributesNothing ==
  (dataset = "visiblePopulation" /\ pc = "done") =>
    /\ {f.properties["Postcode"].s : f \in Range(result.features)}
         = ExpectedPostcodes
    /\ Len(result.features) = Cardinality(ExpectedPostcodes)

\* A windowed load has returned records although shard 2, whose rows are in
\* the box, failed in the middle of its filter.
C8_Witness ==
  /\ dataset = "visiblePopulation" /\ result.status = "resolved"
  /\ failKind = "malformed" /\ unreadable = {2} /\ box = <<10, 20, 12, 22>>
  /\ result.features # <<>>
  /\ 2 \in Range(log)

(***************************************************************************)
(* C9.  When the backing resource of a whole-dataset load cannot be        *)
(* retrieved or decoded, the load fails to its caller: the caller gets     *)
(* neither a partial nor an empty collection.                              *)
(* The loaders of CSVReader.ts do not look at response.ok and parse the    *)
(* error page of an HTTP error status as CSV.                              *)
(***************************************************************************)
C9_UnreadableSourceRejects ==
  (dataset \in WholeFile /\ pc = "done" /\ net # "ok") =>
    result.status = "rejected"

(***************************************************************************)
(* C10.  loadVisiblePopulation returns a FeatureCollection even if some or *)
(* all shards fail; when all 18 shards fail, the collection's feature list *)
(* is empty and no error is returned.                                      *)
(***************************************************************************)
C10_ReturnsCollectionWhenShardsFail ==
  dataset = "visiblePopulation" =>
    /\ result.status # "rejected"
    /\ pc = "done" =>
         /\ result.status = "resolved"
         /\ result.type = "FeatureCollection"
         /\ unreadable = 1..totalChunks => result.features = <<>>

\* A windowed load has returned with all 18 shards unreadable.
C10_Witness ==
  /\ dataset = "visiblePopulation" /\ pc = "done"
  /\ unreadable = 1..totalChunks /\ Cardinality(unreadable) = 18
  /\ Len(log) > 0
  /\ result = Resolved(<<>>)

(***************************************************************************)
(* C11.  Within one loadVisiblePopulation call the shards are processed    *)
(* strictly one after the other in ascending ordinal order 1..N: the       *)
(* retrieval of shard i+1 does not begin until the retrieval and parse of  *)
(* shard i has completed or failed, so at most one shard retrieval is in   *)
(* flight at any time.                                                     *)
(***************************************************************************)
\* The shards whose retrieval was started and has not completed or failed.
Unsettled == attempted \ SeenChunks

C11_ShardsSequential ==
  dataset = "visiblePopulation" =>
    /\ \E n \in 0..totalChunks : attempted = 1..n
    /\ Cardinality(Unsettled) <= 1
    /\ Unsettled = IF inflight = 0 THEN {} ELSE {inflight}
    /\ \A n \in Unsettled : \A m \in 1..(n - 1) : m \in SeenChunks

\* Shard 3 is being retrieved after shard 2 failed and was logged.
C11_Witness ==
  /\ dataset = "visiblePopulation"
  /\ inflight = 3 /\ attempted = {1, 2, 3}
  /\ 2 \in unreadable /\ 2 \in Range(log)

(***************************************************************************)
(* C12.  For a whole-file load of any dataset, the order of the features   *)
(* in the output collection is the order of their surviving source rows:   *)
(* if rows r and s both survive and r precedes s in the source, r's        *)
(* feature precedes s's feature.                                           *)
(***************************************************************************)
\* The feature the loader makes of row k, as the list holds it: as pushed,
\* or as read back from the .geojson file.
FeatureOfRow(k) ==
  LET f == RowFeature(dataset, variant, Source[k])[1]
  IN  IF variant = "geojson" /\ pc # "preprocess" THEN JsonFeature(f) ELSE f

\* Row k survives the loader's filter.
Survives(k) == RowFeature(dataset, variant, Source[k]) # <<>>

C12_WholeFileOrder ==
  dataset \in WholeFile =>
    /\ Len(origin) = Len(features)
    /\ Range(origin) = {k \in Seen : Survives(k)}
    /\ \A j \in DOMAIN features : features[j] = FeatureOfRow(origin[j])
    /\ \A j, k \in DOMAIN features : j < k => origin[j] < origin[k]

\* A load has returned the features of two different surviving rows.
C12_Witness ==
  /\ dataset \in WholeFile /\ result.status = "resolved"
  /\ Len(result.features) = 2
  /\ result.features[1] # result.features[2]
  /\ Source[1] # Source[2]

(***************************************************************************)
(* C13.  The collection merged by loadVisiblePopulation is ordered by      *)
(* shard ordinal and then by row order within the shard: every surviving   *)
(* record of shard i precedes every surviving record of shard j whenever   *)
(* i < j, and the records of one shard keep their source order.            *)
(***************************************************************************)
\* The postcodes of the surviving rows of shards 1..n, shard by shard and row
\* by row.
RECURSIVE SurvivingPostcodes(_)
SurvivingPostcodes(n) ==
  IF n = 0 THEN <<>>
  ELSE SurvivingPostcodes(n - 1)
         \o (IF n \in unreadable THEN <<>>
             ELSE LET kept == SelectSeq(ChunkRows(n),
                                LAMBDA r : FiniteCoordinates(r) /\ InBox(r))
                  IN  [k \in DOMAIN kept |-> kept[k]["Postcode"]])

C13_MergedOrder ==
  dataset = "visiblePopulation" =>
    [k \in DOMAIN features |-> features[k].properties["Postcode"].s]
      = SurvivingPostcodes(i - 1)

\* A windowed load has returned the two records of shard 1, in their source
\* order, before a record of shard 2, and nothing of the unreadable shard 3.
C13_Witness ==
  /\ dataset = "visiblePopulation" /\ result.status = "resolved"
  /\ unreadable = {3}
  /\ Len(result.features) >= 4
  /\ result.features[1].properties["Postcode"] = Str("1a")
  /\ result.features[2].properties["Postcode"] = Str("1b")
  /\ result.features[3].properties["Postcode"] = Str("2a")
  /\ result.features[4].properties["Postcode"] # Str("3a")

(***************************************************************************)
(* C14.  Every feature emitted for a dataset has pointType equal to that   *)
(* dataset's fixed discriminator (competitor, commercial, traffic,         *)
(* population), for the whole-file and the windowed population loader      *)
(* alike, and a raw input column named pointType can never change the      *)
(* emitted value.                                                          *)
(* Neither loadVisiblePopulation sets pointType, and readCompetitionsData  *)
(* and readPopulationData spread the raw columns over it.                  *)
(***************************************************************************)
\* feature.properties.k: undefined when the feature has no such property.
PropertyOf(f, k) ==
  IF k \in DOMAIN f.properties THEN f.properties[k] ELSE Undefined

\* The fixed discriminator of a dataset.
Discriminator(ds) == IF ds = "visiblePopulation" THEN "population" ELSE ds

C14_PointTypeIsDiscriminator ==
  \A f \in Range(features) :
    PropertyOf(f, "pointType") = Str(Discriminator(dataset))

(***************************************************************************)
(* C15.  A traffic row with valid coordinates and a non-numeric            *)
(* all_motor_vehicles value yields a feature whose all_motor_vehicles      *)
(* property is the integer 0: the row is not dropped.                      *)
(***************************************************************************)
\* Column c of the row holds no number: the row has no such column, or its
\* text is empty or not a numeral.
NonNumeric(row, c) == c \notin DOMAIN row \/ row[c] \notin DOMAIN Numerals

\* The features in the list that came from row k.
FeaturesOf(k) == {features[j] : j \in {n \in DOMAIN features : origin[n] = k}}

C16_AsStated ==
  dataset = "traffic" =>
    \A k \in Seen :
      (ValidCoordinates(Source[k]) /\ NonNumeric(Source[k], "year")) =>
        /\ Kept(k)
        /\ \A f \in FeaturesOf(k) : PropertyOf(f, "year") = Undefined

(***************************************************************************)
(* C16, amended.  A traffic row with valid coordinates and a non-numeric   *)
(* year yields a feature that has a year property whose value is NaN, and  *)
(* null once the feature has been written to a .geojson file: it is        *)
(* neither absent nor undefined, and it is not zero or any other number.   *)
(* The row itself is still emitted.                                        *)
(***************************************************************************)
C16_YearIsNaN ==
  dataset = "traffic" =>
    \A k \in Seen :
      (ValidCoordinates(Source[k]) /\ NonNumeric(Source[k], "year")) =>
        /\ Kept(k)
        /\ \A f \in FeaturesOf(k) :
             /\ "year" \in DOMAIN f.properties
             /\ f.properties["year"] =
                  IF variant = "geojson" /\ pc # "preprocess" THEN Null
                  ELSE NaN

\* A traffic load over .geojson has returned a feature with the year null and
\* the count 100 for a row whose year is "abc".
C16_Witness ==
  /\ dataset = "traffic" /\ variant = "geojson" /\ result.status = "resolved"
  /\ \E j \in DOMAIN result.features :
       /\ HasCell(Source[origin[j]], "year", "abc")
       /\ result.features[j].properties["year"] = Null
       /\ result.features[j].properties["all_motor_vehicles"] = Num(100)

(***************************************************************************)
(* C19.  A traffic feature's properties contain only pointType, year and   *)
(* all_motor_vehicles: every other raw column of the traffic row is        *)
(* dropped, whatever columns the row has.                                  *)
(***************************************************************************)
C19_TrafficPropertiesOnly ==
  dataset = "traffic" =>
    \A f \in Range(features) :
      DOMAIN f.properties = {"pointType", "year", "all_motor_vehicles"}

\* A traffic load has returned a feature for a row that has the columns
\* road_name and pointType as well.
C19_Witness ==
  /\ dataset = "traffic" /\ result.status = "resolved"
  /\ \E j \in DOMAIN result.features :
       /\ HasCell(Source[origin[j]], "road_name", "A1")
       /\ HasCell(Source[origin[j]], "pointType", "raw")
       /\ result.features[j].properties =
            [pointType |-> Str("traffic"), year |-> Num(2020),
             all_motor_vehicles |-> Num(100)]

(***************************************************************************)
(* C17.  Every competitor feature, whether produced by the in-browser      *)
(* loader or by the batch preprocessor, has the property address equal to  *)
(* the row's raw full_address value, and every raw column other than the   *)
(* coordinate pair is passed through unchanged under its own name.         *)
(* processCompetitionData writes { ...rest, pointType }: its features have *)
(* no address property.  A raw column called pointType is C14's matter and *)
(* is left out here.                                                       *)
(***************************************************************************)
\* Every column of the row outside the set is a property of the feature with
\* the raw text as its value.
PassedThrough(f, row, except) ==
  \A c \in DOMAIN row \ except : PropertyOf(f, c) = Str(row[c])

C17_CompetitorAddress ==
  dataset = "competitor" =>
    \A j \in DOMAIN features :
      /\ PropertyOf(features[j], "address")
           = Get(Source[origin[j]], "full_address")
      /\ PassedThrough(features[j], Source[origin[j]],
                       {"longitude", "latitude", "pointType"})

(***************************************************************************)
(* C18.  Every population feature, from the whole-file loader and from the *)
(* windowed (chunk) loader alike, has BUA_Population coerced to an         *)
(* integer, with 0 when the raw value does not parse, and all other        *)
(* non-coordinate raw columns passed through.                              *)
(* readPopulationData spreads the raw BUA_Population text unconverted.     *)
(* Stated, for the whole-file loader, of the rows that have the column.    *)
(***************************************************************************)
\* The integer the raw cell of column c denotes, 0 when it denotes none.
IntegerOrZero(row, c) ==
  IF FiniteCell(row, c) THEN Num(Numerals[row[c]]) ELSE Num(0)

\* The row of the chunk files that has this postcode.
ChunkRowOf(postcode) ==
  CHOOSE r \in UNION {Range(ChunkRows(n)) : n \in 1..totalChunks} :
    r["Postcode"] = postcode

\* The feature is the population record of the row.
PopulationRecord(f, row) ==
  /\ PropertyOf(f, "BUA_Population") = IntegerOrZero(row, "BUA_Population")
  /\ PassedThrough(f, row, {"Longitude", "Latitude", "BUA_Population"})

C18_PopulationCountCoerced ==
  /\ dataset = "population" =>
       \A j \in DOMAIN features :
         "BUA_Population" \in DOMAIN Source[origin[j]] =>
           PopulationRecord(features[j], Source[origin[j]])
  /\ dataset = "visiblePopulation" =>
       \A f \in Range(features) :
         PopulationRecord(f, ChunkRowOf(f.properties["Postcode"].s))

CommercialColumns ==
  {"outcode", "pageTitle", "pricePerSqFt", "price_1", "price_2", "property",
   "propertySubType", "sector", "size", "type", "ukCountry", "url", "id"}

RejectedRows == {k \in DOMAIN Source : ~Survives(k)}

C21_RejectedRowRemovesOnlyItself ==
  dataset \in WholeFile =>
    /\ net \in {"pending", "ok"} => result.status # "rejected"
    /\ Len(features) = Cardinality(Seen) - Cardinality(RejectedRows \cap Seen)
    /\ (pc = "done" /\ net = "ok") =>
         /\ result.status = "resolved"
         /\ Len(result.features) = Len(Source) - Cardinality(RejectedRows)
         /\ \A k \in DOMAIN Source \ RejectedRows :
              \E j \in DOMAIN result.features :
                origin[j] = k /\ result.features[j] = FeatureOfRow(k)

\* A load of two rows has returned one feature: the first row was rejected
\* and the second row, a valid one, was emitted.
C21_Witness ==
  /\ dataset \in WholeFile /\ pc = "done" /\ net = "ok"
  /\ result.status = "resolved"
  /\ Len(Source) = 2 /\ RejectedRows = {1}
  /\ Len(result.features) = 1 /\ origin = <<2>>

(***************************************************************************)
(* C23.  splitCsv partitions the data rows of the input file into chunks   *)
(* chunk_1..chunk_k such that every chunk begins with the input's header   *)
(* line, every chunk holds at most ROWS_PER_FILE data rows and all but the *)
(* last hold exactly ROWS_PER_FILE, and concatenating the chunks' data     *)
(* rows in ordinal order reproduces the input's data rows exactly once     *)
(* each in the original order.                                             *)
(***************************************************************************)
\* The data rows of chunk_1 .. chunk_k, one chunk after the other.
RECURSIVE ChunkDataRows(_)
ChunkDataRows(k) ==
  IF k = 0 THEN <<>> ELSE ChunkDataRows(k - 1) \o Tail(chunks[k])

C23_SplitPartitionsRows ==
  splitPc \in {"loop", "done"} =>
    /\ \A k \in DOMAIN chunks :
         /\ chunks[k] # <<>> /\ chunks[k][1] = input[1]
         /\ Len(chunks[k]) - 1 \in 1..ROWS_PER_FILE
         /\ k < Len(chunks) => Len(chunks[k]) - 1 = ROWS_PER_FILE
    /\ ChunkDataRows(Len(chunks)) = SubSeq(input, 2, linePos - 1)
    /\ splitPc = "done" =>
         /\ ChunkDataRows(Len(chunks)) = SubSeq(input, 2, Len(input))
         /\ ended = DOMAIN chunks

\* The script has written three chunks or more, the last one short.
C23_Witness ==
  /\ splitPc = "done"
  /\ Len(chunks) >= 3
  /\ Len(chunks[Len(chunks)]) - 1 < ROWS_PER_FILE
  /\ Len(chunks[1]) - 1 = ROWS_PER_FILE

(***************************************************************************)
(* C24.  Every chunk that splitCsv creates is one that                     *)
(* loadVisiblePopulation reads: no data row of the source population file  *)
(* is placed in a chunk whose ordinal exceeds the loader's fixed shard     *)
(* count of 18, so no in-bounds row is silently unreachable by a windowed  *)
(* load.                                                                   *)
(* splitCsv opens as many chunks as the file has rows for; the loader's 18 *)
(* is a literal of its own.                                                *)
(***************************************************************************)
C24_EveryChunkIsRead ==
  \A k \in DOMAIN chunks : k <= totalChunks


(***************************************************************************)
(* The Draw Circle tool and the legend checkboxes (MapSpec).               *)
(***************************************************************************)
\* The step is the map click that completes a Draw Circle.
CompletesDrawCircle == drawingCircle /\ ~drawingCircle'

\* The step is a press of Draw Circle that starts a drawing.
StartsDrawCircle == ~drawingCircle /\ drawingCircle'

\* C28: at most one circle-drawing click listener is registered on the map at
\* any time, and drawingCircle is true exactly while it is registered: a
\* press of Draw Circle while drawingCircle is true registers nothing, and the
\* listener removes itself on the first map click.
C28_OneClickListener ==
  /\ Len(listeners) <= 1
  /\ drawingCircle <=> listeners # <<>>

\* A second drawing is under way, after a first one was completed and Draw
\* Circle was pressed since.
C28_Witness ==
  /\ drawingCircle /\ Len(listeners) = 1
  /\ circle # <<>>
  /\ listeners[1].competitionData # <<>>

C22_SelectionIsVisibleInside ==
  [][CompletesDrawCircle =>
       selectedPoints' = SelectedBy(Closure, circle'[1].center)]_vars

\* C29: whenever a layer exists on the map and no effect is pending, the
\* layer's visibility is the current state of its legend checkbox.
C29_VisibilityFollowsCheckbox ==
  effects = {} =>
    \A l \in DOMAIN layers : layers[l] = Visibility(Show[l])


(***************************************************************************)
(* The population updates (PopulationSpec).                                *)
(***************************************************************************)
\* The calls of updatePopulationDataAndLayers the debounced function made.
DebouncedRuns == {k \in DOMAIN runs : runs[k].event > 0}

\* C27: the debounced update runs at most once for a moveend event, not
\* before 500 ms have passed since that event, and only if no moveend came
\* after it: the event it is called with is the last one so far, so every
\* earlier event of the burst was cancelled.
C27_DebounceRunsOncePerBurst ==
  \A k \in DebouncedRuns :
    /\ runs[k].at >= moves[runs[k].event] + waitFor
    /\ runs[k].event = runs[k].seen
    /\ \A j \in DebouncedRuns : runs[j].event = runs[k].event => j = k

\* A burst of two moveend events less than 500 ms apart was followed by one
\* update, for the second event, and a third event came later.
C27_Witness ==
  /\ Len(moves) = 3
  /\ moves[2] - moves[1] < waitFor
  /\ moves[3] - moves[2] >= waitFor
  /\ \E k \in DebouncedRuns : runs[k].event = 2
  /\ \A k \in DebouncedRuns : runs[k].event # 1

\* C26: the population source and its two layers are added to the map at
\* most once, whatever the order in which overlapping updates complete:
\* addSource is never called while the map has the source.
C26_SourceAddedOnce ==
  /\ addSourceCalls <= 1
  /\ addSourceCalls = 1 <=> populationSource # <<>>
  /\ DOMAIN populationLayers =
       IF populationSource # <<>> THEN PopulationLayerIds ELSE {}

\* Two updates overlapped and both have completed, the older one last.
C26_Witness ==
  /\ Len(runs) >= 2 /\ loading = {}
  /\ addSourceCalls = 1
  /\ populationSource = << 1 >>

\* C25: once no windowed population load is in flight, the population source
\* holds the result of the load issued last.
C25_LatestLoadWins ==
  loading = {} /\ populationSource # <<>> =>
    populationSource[1] = Len(runs)

====
